---------------------------- MODULE Spec2Model ----------------------------
(***************************************************************************)
(* A model of packaging/whl.py: the Wheel class (file-name identity,        *)
(* METADATA parsing, dependency resolution) and main(), which expands a    *)
(* wheel and writes its BUILD file.                                         *)
(*                                                                         *)
(* Three specifications share the module:                                  *)
(*   Spec      calls metadata(), extras() and dependencies(extra) on a     *)
(*             wheel whose METADATA parses;                                *)
(*   SpecName  calls distribution(), version() and repository_name() on a  *)
(*             wheel path;                                                 *)
(*   SpecMain  runs main() twice, one run after the other, on the same     *)
(*             archive with the same arguments.                            *)
(*                                                                         *)
(* Python values: None is the string "None" (no extra, project or literal  *)
(* of the model is called "None"); a tuple or a list is a sequence; a str  *)
(* whose characters matter (a path) is a sequence of one-character         *)
(* strings.  Extra names of the model are lower-case alphanumerics, which  *)
(* pkg_resources.safe_extra leaves unchanged.                              *)
(***************************************************************************)
EXTENDS Naturals, Sequences, FiniteSets

VARIABLES
  whl,        \* Spec, SpecMain: the archive, [has_metadata, METADATA]
  environ,    \* Spec, SpecMain: the marker environment of the interpreter
  record,     \* Spec: what the latest metadata() call returned
  listed,     \* Spec: what the latest extras() call returned
  base,       \* Spec: what the latest dependencies() call returned
  extraArg,   \* Spec: the argument of the latest dependencies(extra) call
  extraDeps,  \* Spec: what that call returned
  path,       \* SpecName: the wheel's path
  ret,        \* SpecName: the latest call and what it returned
  args,       \* SpecMain: the parsed command line
  run,        \* SpecMain: which of the two runs of main() is under way
  pc,         \* SpecMain: where that run is
  BUILD,      \* SpecMain: the BUILD file of the directory
  deps_txt,   \* SpecMain: the entries rendered so far for "pkg"
  extras_txt, \* SpecMain: the targets rendered so far for the extras
  first       \* SpecMain: what the first run wrote

vars == <<whl, environ, record, listed, base, extraArg, extraDeps, path, ret,
          args, run, pc, BUILD, deps_txt, extras_txt, first>>

wheelVars == <<record, listed, base, extraArg, extraDeps>>
nameVars == <<path, ret>>
mainVars == <<args, run, pc, BUILD, deps_txt, extras_txt, first>>

----------------------------------------------------------------------------
(* Bounds *)

\* The most requirement fields (Requires and Requires-Dist together) of a METADATA.
MaxReqs == 2

\* The most characters of a wheel path.
MaxPathLen == 5

\* The most --extras arguments of a command line.
MaxExtras == 1

----------------------------------------------------------------------------
(* Python values *)

None == "None"

\* bool(x) of a str or None
Truthy(x) == x # None /\ x # ""

Range(s) == {s[i] : i \in 1..Len(s)}

SeqsUpTo(S, n) == UNION {[1..k -> S] : k \in 0..n}

\* What a call left behind: nothing yet, a return value, or an exception.
NotCalled == [status |-> "none"]
Returned(v) == [status |-> "ok", value |-> v]
Raised(e) == [status |-> "raised", error |-> e]

----------------------------------------------------------------------------
(* packaging.markers: the parsed marker, Marker._markers *)

Variable(v) == [type |-> "Variable", value |-> v]
Value(v) == [type |-> "Value", value |-> v]
Tuple(lhs, op, rhs) == [type |-> "tuple", lhs |-> lhs, op |-> op, rhs |-> rhs]
Str(s) == [type |-> "str", value |-> s]
List(items) == [type |-> "list", items |-> items]

NoMarker == [present |-> FALSE, _markers |-> List(<<>>)]
Marker(items) == [present |-> TRUE, _markers |-> List(items)]

Requirement(name, extras, marker) ==
  [project_name |-> name, extras |-> extras, marker |-> marker]

InvalidRequirement == [project_name |-> None, extras |-> <<>>, marker |-> NoMarker]

\* The requirement strings of the model, and pkg_resources' parse of each.
\* Each parses, and its marker evaluates without raising for every extra: a
\* leaf with a literal on the left of `extra` ('test' == extra), whose
\* evaluation raises TypeError inside packaging when extra is None, is left out.
RequirementStrings ==
  { "six",
    "mock; extra == 'test'",
    "requests[security]; extra == 'security'",
    "requests[security]",
    "mock[test]; extra == 'security'",
    "six; extra != 'test'",
    "mock; extra == 'test' and os_name == 'posix'",
    "mock; os_name == 'posix' and extra == 'test'",
    "six; 'posix' == os_name",
    "requests; os_name == 'nt' or (os_name == 'posix' and extra == 'security')",
    "requests[security]; os_name == 'posix'",
    "mock; extra == ''" }

\* A field value that is no requirement.
MalformedStrings == { "mock ===" }

parse_requirement(s) ==
  CASE s = "six" -> Requirement("six", <<>>, NoMarker)
    [] s = "mock; extra == 'test'" ->
         Requirement("mock", <<>>,
           Marker(<<Tuple(Variable("extra"), "==", Value("test"))>>))
    [] s = "requests[security]; extra == 'security'" ->
         Requirement("requests", <<"security">>,
           Marker(<<Tuple(Variable("extra"), "==", Value("security"))>>))
    [] s = "requests[security]" ->
         Requirement("requests", <<"security">>, NoMarker)
    [] s = "mock[test]; extra == 'security'" ->
         Requirement("mock", <<"test">>,
           Marker(<<Tuple(Variable("extra"), "==", Value("security"))>>))
    [] s = "six; extra != 'test'" ->
         Requirement("six", <<>>,
           Marker(<<Tuple(Variable("extra"), "!=", Value("test"))>>))
    [] s = "mock; extra == 'test' and os_name == 'posix'" ->
         Requirement("mock", <<>>,
           Marker(<<Tuple(Variable("extra"), "==", Value("test")), Str("and"),
                    Tuple(Variable("os_name"), "==", Value("posix"))>>))
    [] s = "mock; os_name == 'posix' and extra == 'test'" ->
         Requirement("mock", <<>>,
           Marker(<<Tuple(Variable("os_name"), "==", Value("posix")), Str("and"),
                    Tuple(Variable("extra"), "==", Value("test"))>>))
    [] s = "six; 'posix' == os_name" ->
         Requirement("six", <<>>,
           Marker(<<Tuple(Value("posix"), "==", Variable("os_name"))>>))
    [] s = "requests; os_name == 'nt' or (os_name == 'posix' and extra == 'security')" ->
         Requirement("requests", <<>>,
           Marker(<<Tuple(Variable("os_name"), "==", Value("nt")), Str("or"),
                    List(<<Tuple(Variable("os_name"), "==", Value("posix")), Str("and"),
                           Tuple(Variable("extra"), "==", Value("security"))>>)>>))
    [] s = "requests[security]; os_name == 'posix'" ->
         Requirement("requests", <<"security">>,
           Marker(<<Tuple(Variable("os_name"), "==", Value("posix"))>>))
    [] s = "mock; extra == ''" ->
         Requirement("mock", <<>>,
           Marker(<<Tuple(Variable("extra"), "==", Value(""))>>))
    [] OTHER -> InvalidRequirement

\* list(pkg_resources.parse_requirements(strs)): the first string that is no
\* requirement raises.
parse_requirements(strs) ==
  IF \E i \in 1..Len(strs) : parse_requirement(strs[i]) = InvalidRequirement
  THEN Raised("RequirementParseError")
  ELSE Returned([i \in 1..Len(strs) |-> parse_requirement(strs[i])])

\* Marker.evaluate's lookup of a variable: `extra` comes from the caller, every
\* other variable from default_environment().
_get_env(environment, name) == environment[name]

\* _eval_op on names that are no version specifiers: operator.eq / operator.ne.
_eval_op(lhs, op, rhs) == IF op = "==" THEN lhs = rhs ELSE lhs # rhs

\* _evaluate_markers: each tuple and each nested list is evaluated into the
\* current group, "or" starts a new group, and the result is
\* any(all(group) for group in groups).
RECURSIVE _evaluate_markers(_, _)
_evaluate_markers(markers, environment) ==
  LET items == markers.items
      OrsBefore(i) == Cardinality({j \in 1..(i - 1) :
                        items[j].type = "str" /\ items[j].value = "or"})
      Operand(i) == items[i].type # "str"
      Val(i) ==
        IF items[i].type = "list"
        THEN _evaluate_markers(items[i], environment)
        ELSE LET lhs == items[i].lhs
                 rhs == items[i].rhs
                 lhs_value == IF lhs.type = "Variable"
                              THEN _get_env(environment, lhs.value) ELSE lhs.value
                 rhs_value == IF rhs.type = "Variable"
                              THEN _get_env(environment, rhs.value) ELSE rhs.value
             IN _eval_op(lhs_value, items[i].op, rhs_value)
  IN \E g \in 0..Len(items) :
       /\ g <= OrsBefore(Len(items) + 1)
       /\ \A i \in 1..Len(items) : (Operand(i) /\ OrsBefore(i) = g) => Val(i)

\* requirement.marker.evaluate({"extra": extra}) in the interpreter's environment
evaluate(marker, extra, env) ==
  _evaluate_markers(marker._markers, [n \in {"extra", "os_name"} |->
                                        IF n = "extra" THEN extra ELSE env[n]])

----------------------------------------------------------------------------
(* Wheel._parse_metadata *)

\* find_marker_extra looking for a variable of another name.
RECURSIVE find_marker_extra_misnamed(_)
find_marker_extra_misnamed(markers) ==
  IF markers.type = "list"
  THEN find_marker_extra_misnamed(markers.items[Len(markers.items)])
  ELSE IF markers.type = "tuple"
  THEN IF markers.lhs.type = "Variable" /\ markers.lhs.value = "extras"
       THEN markers.rhs.value
       ELSE None
  ELSE None

\* find_marker_extra: a list recurses into its last element; a tuple whose left
\* side is the variable `extra` yields its right side's value, whatever the
\* operator; every other tuple falls off the end of the function (None).
RECURSIVE find_marker_extra(_)
find_marker_extra(markers) ==
  IF markers.type = "list"
  THEN find_marker_extra(markers.items[Len(markers.items)])
  ELSE IF markers.type = "tuple"
  THEN IF markers.lhs.type = "Variable" /\ markers.lhs.value = "extra"
       THEN markers.rhs.value
       ELSE None
  ELSE None

\* One turn of the loop over the requirements: requirement.extras as the loop
\* leaves it.
with_marker_extra(requirement) ==
  IF requirement.marker.present
  THEN LET marker_extra == find_marker_extra(requirement.marker._markers)
       IN IF Truthy(marker_extra)
          THEN [requirement EXCEPT !.extras = @ \o <<marker_extra>>]
          ELSE requirement
  ELSE requirement

\* _parse_metadata reading the Requires-Dist fields alone.
_parse_metadata_dist_only(content) ==
  LET parsed == parse_requirements(content.RequiresDist)
  IN IF parsed.status = "raised" THEN parsed
     ELSE LET requirements == [i \in 1..Len(parsed.value) |->
                                 with_marker_extra(parsed.value[i])]
          IN Returned([name |-> content.Name,
                       run_requires |-> requirements,
                       extras |-> UNION {Range(requirements[i].extras) :
                                           i \in 1..Len(requirements)}])

\* content is the METADATA text, by its header fields; the email parser takes
\* any text.
_parse_metadata(content) ==
  LET parsed == parse_requirements(content.Requires \o content.RequiresDist)
  IN IF parsed.status = "raised" THEN parsed
     ELSE LET requirements == [i \in 1..Len(parsed.value) |->
                                 with_marker_extra(parsed.value[i])]
          IN Returned([name |-> content.Name,
                       run_requires |-> requirements,
                       extras |-> UNION {Range(requirements[i].extras) :
                                           i \in 1..Len(requirements)}])

\* Wheel.metadata: opening an entry the archive does not hold raises KeyError.
metadata(w) ==
  IF ~w.has_metadata THEN Raised("KeyError") ELSE _parse_metadata(w.METADATA)

\* Wheel.extras
extras(w) ==
  LET md == metadata(w)
  IN IF md.status = "raised" THEN md ELSE Returned(md.value.extras)

----------------------------------------------------------------------------
(* Wheel.dependencies *)

\* skipped with the second test also skipping a requirement without extras.
skipped_without_extras_too(requirement, extra, env) ==
  \/ ~Truthy(extra) /\ requirement.extras # <<>>
  \/ Truthy(extra) /\ (requirement.extras = <<>>
                         \/ extra \notin Range(requirement.extras))
  \/ requirement.marker.present /\ ~evaluate(requirement.marker, extra, env)

\* skipped without the marker's test.
skipped_ignoring_marker(requirement, extra, env) ==
  \/ ~Truthy(extra) /\ requirement.extras # <<>>
  \/ Truthy(extra) /\ requirement.extras # <<>>
       /\ extra \notin Range(requirement.extras)

\* skipped without the first test.
skipped_keeping_unrequested(requirement, extra, env) ==
  \/ Truthy(extra) /\ requirement.extras # <<>>
       /\ extra \notin Range(requirement.extras)
  \/ requirement.marker.present /\ ~evaluate(requirement.marker, extra, env)

\* The three `continue`s of the loop body, in order.
skipped(requirement, extra, env) ==
  \/ ~Truthy(extra) /\ requirement.extras # <<>>
  \/ Truthy(extra) /\ requirement.extras # <<>>
       /\ extra \notin Range(requirement.extras)
  \/ requirement.marker.present /\ ~evaluate(requirement.marker, extra, env)

dependencies(w, extra, env) ==
  LET md == metadata(w)
  IN IF md.status = "raised" THEN md
     ELSE LET run_requires == md.value.run_requires
          IN Returned({run_requires[i].project_name :
                         i \in {j \in 1..Len(run_requires) :
                                  ~skipped(run_requires[j], extra, env)}})

----------------------------------------------------------------------------
(* Spec: the calls on a wheel whose METADATA parses *)

\* The METADATA texts: at most MaxReqs requirement fields, the first k of them
\* Requires fields and the rest Requires-Dist fields.
Contents(strings) ==
  UNION {{[Name |-> "pkg", Requires |-> SubSeq(f, 1, k),
           RequiresDist |-> SubSeq(f, k + 1, Len(f))] : k \in 0..Len(f)} :
           f \in SeqsUpTo(strings, MaxReqs)}

Environments == [{"os_name"} -> {"posix", "nt"}]

\* The extras a caller asks for: none, the empty string, and names.
ExtraArgs == {None, "", "test", "security", "docs"}

IdleWheel ==
  /\ record = NotCalled
  /\ listed = NotCalled
  /\ base = NotCalled
  /\ extraArg = None
  /\ extraDeps = NotCalled

IdleName == path = <<>> /\ ret = [op |-> "none", result |-> NotCalled]

IdleMain ==
  /\ args = [requirements |-> "", extras |-> <<>>]
  /\ run = 0
  /\ pc = "idle"
  /\ BUILD = [state |-> "absent"]
  /\ deps_txt = <<>>
  /\ extras_txt = <<>>
  /\ first = NotCalled

Init ==
  /\ whl \in {[has_metadata |-> TRUE, METADATA |-> c] : c \in Contents(RequirementStrings)}
  /\ environ \in Environments
  /\ IdleWheel
  /\ IdleName
  /\ IdleMain

\* whl.metadata()
Metadata ==
  /\ record = NotCalled
  /\ record' = metadata(whl)
  /\ UNCHANGED <<whl, environ, listed, base, extraArg, extraDeps, nameVars, mainVars>>

\* whl.extras()
Extras ==
  /\ listed = NotCalled
  /\ listed' = extras(whl)
  /\ record' = metadata(whl)
  /\ UNCHANGED <<whl, environ, base, extraArg, extraDeps, nameVars, mainVars>>

\* whl.dependencies()
DependenciesBase ==
  /\ base = NotCalled
  /\ base' = dependencies(whl, None, environ)
  /\ record' = metadata(whl)
  /\ UNCHANGED <<whl, environ, listed, extraArg, extraDeps, nameVars, mainVars>>

\* whl.dependencies(extra)
DependenciesExtra ==
  /\ extraDeps = NotCalled
  /\ \E extra \in ExtraArgs :
       /\ extraArg' = extra
       /\ extraDeps' = dependencies(whl, extra, environ)
  /\ record' = metadata(whl)
  /\ UNCHANGED <<whl, environ, listed, base, nameVars, mainVars>>

Next == Metadata \/ Extras \/ DependenciesBase \/ DependenciesExtra

Spec == Init /\ [][Next]_vars

----------------------------------------------------------------------------
(* Wheel.distribution, Wheel.version, Wheel.repository_name *)

\* The characters of the model's paths: a letter, a digit, the three
\* characters repository_name escapes, and the path separator.
Alphabet == {"g", "0", "-", ".", "+", "/"}

\* os.path.basename: what follows the last "/".
RECURSIVE basename(_)
basename(p) ==
  IF p = <<>> \/ p[Len(p)] = "/" THEN <<>>
  ELSE basename(SubSeq(p, 1, Len(p) - 1)) \o <<p[Len(p)]>>

\* str.split(sep): the pieces between the separators, empty ones included.
RECURSIVE split(_, _)
split(s, sep) ==
  IF \A i \in 1..Len(s) : s[i] # sep THEN <<s>>
  ELSE LET k == CHOOSE i \in 1..Len(s) :
                  s[i] = sep /\ \A j \in 1..(i - 1) : s[j] # sep
       IN <<SubSeq(s, 1, k - 1)>> \o split(SubSeq(s, k + 1, Len(s)), sep)

distribution(p) ==
  LET parts == split(basename(p), "-") IN Returned(parts[1])

\* parts[1] of a one-element list raises IndexError.
version(p) ==
  LET parts == split(basename(p), "-")
  IN IF Len(parts) < 2 THEN Raised("IndexError") ELSE Returned(parts[2])

\* re.sub with the class '[-.]'
re_sub_without_plus(s) == [i \in 1..Len(s) |-> IF s[i] \in {"-", "."} THEN "_" ELSE s[i]]

\* re.sub('[-.+]', '_', s)
re_sub(s) == [i \in 1..Len(s) |-> IF s[i] \in {"-", ".", "+"} THEN "_" ELSE s[i]]

repository_name(p) ==
  IF version(p).status = "raised" THEN version(p)
  ELSE LET canonical == <<"p", "y", "p", "i", "_", "_">> \o distribution(p).value
                          \o <<"_">> \o version(p).value
       IN Returned(re_sub(canonical))

----------------------------------------------------------------------------
(* SpecName: the calls on a wheel path *)

IdleArchive ==
  /\ whl = [has_metadata |-> FALSE,
            METADATA |-> [Name |-> "pkg", Requires |-> <<>>, RequiresDist |-> <<>>]]
  /\ environ = [n \in {"os_name"} |-> "posix"]

InitName ==
  /\ path \in SeqsUpTo(Alphabet, MaxPathLen)
  /\ ret = [op |-> "none", result |-> NotCalled]
  /\ IdleArchive
  /\ IdleWheel
  /\ IdleMain

Distribution ==
  /\ ret.op = "none"
  /\ ret' = [op |-> "distribution", result |-> distribution(path)]
  /\ UNCHANGED <<whl, environ, wheelVars, path, mainVars>>

Version ==
  /\ ret.op = "none"
  /\ ret' = [op |-> "version", result |-> version(path)]
  /\ UNCHANGED <<whl, environ, wheelVars, path, mainVars>>

RepositoryName ==
  /\ ret.op = "none"
  /\ ret' = [op |-> "repository_name", result |-> repository_name(path)]
  /\ UNCHANGED <<whl, environ, wheelVars, path, mainVars>>

NextName == Distribution \/ Version \/ RepositoryName

SpecName == InitName /\ [][NextName]_vars

----------------------------------------------------------------------------
(* main *)

\* 'requirement("%s")' % d
requirement_txt(d) == <<"requirement", d>>

\* The orders in which a `for` over the set S may visit it: a set of str
\* iterates in the order of its hashes, which the interpreter seeds per process.
Orders(S) ==
  {o \in [1..Cardinality(S) -> S] : \A i, j \in 1..Cardinality(S) : i # j => o[i] # o[j]}

\* The text written to BUILD, by the three values formatted into the template.
build_txt(requirements, dependencies_txt, extra_targets) ==
  [state |-> "written", requirements |-> requirements,
   dependencies |-> dependencies_txt, extras |-> extra_targets]

InitMain ==
  /\ whl \in {[has_metadata |-> h, METADATA |-> c] :
                h \in BOOLEAN, c \in Contents(RequirementStrings \cup MalformedStrings)}
  /\ environ \in Environments
  /\ args \in {[requirements |-> "@pip//:requirements.bzl", extras |-> e] :
                 e \in SeqsUpTo({"test", "security"}, MaxExtras)}
  /\ run = 1
  /\ pc = "expand"
  /\ BUILD = [state |-> "absent"]
  /\ deps_txt = <<>>
  /\ extras_txt = <<>>
  /\ first = NotCalled
  /\ IdleWheel
  /\ IdleName

\* whl.expand(args.directory)
Expand ==
  /\ pc = "expand"
  /\ pc' = "open"
  /\ UNCHANGED <<whl, environ, wheelVars, nameVars, args, run, BUILD, deps_txt,
                 extras_txt, first>>

\* open(os.path.join(args.directory, 'BUILD'), 'w'): the file is created, or
\* truncated, before any argument of f.write is evaluated.
OpenBuild ==
  /\ pc = "open"
  /\ BUILD' = [state |-> "empty"]
  /\ pc' = "base"
  /\ UNCHANGED <<whl, environ, wheelVars, nameVars, args, run, deps_txt,
                 extras_txt, first>>

\* ','.join(['requirement("%s")' % d for d in whl.dependencies()])
RenderBase ==
  /\ pc = "base"
  /\ LET d == dependencies(whl, None, environ)
     IN IF d.status = "raised"
        THEN pc' = "raised" /\ UNCHANGED deps_txt
        ELSE /\ \E o \in Orders(d.value) :
                  deps_txt' = [i \in 1..Len(o) |-> requirement_txt(o[i])]
             /\ pc' = "extras"
  /\ UNCHANGED <<whl, environ, wheelVars, nameVars, args, run, BUILD, extras_txt, first>>

\* One element of the list built `for extra in args.extras or []`.
RenderExtra ==
  /\ pc = "extras"
  /\ Len(extras_txt) < Len(args.extras)
  /\ LET extra == args.extras[Len(extras_txt) + 1]
         d == dependencies(whl, extra, environ)
     IN IF d.status = "raised"
        THEN pc' = "raised" /\ UNCHANGED extras_txt
        ELSE /\ \E o \in Orders(d.value) :
                  extras_txt' = Append(extras_txt,
                    [extra |-> extra,
                     deps |-> [i \in 1..Len(o) |-> requirement_txt(o[i])]])
             /\ pc' = "extras"
  /\ UNCHANGED <<whl, environ, wheelVars, nameVars, args, run, BUILD, deps_txt, first>>

\* f.write(...) and the end of the `with` block
WriteBuild ==
  /\ pc = "extras"
  /\ Len(extras_txt) = Len(args.extras)
  /\ BUILD' = build_txt(args.requirements, deps_txt, extras_txt)
  /\ pc' = "done"
  /\ UNCHANGED <<whl, environ, wheelVars, nameVars, args, run, deps_txt,
                 extras_txt, first>>

\* main() is invoked again on the same archive, with the same arguments.
RunAgain ==
  /\ run = 1
  /\ pc \in {"done", "raised"}
  /\ first' = IF pc = "done" THEN Returned(BUILD) ELSE Raised("exit")
  /\ run' = 2
  /\ pc' = "expand"
  /\ deps_txt' = <<>>
  /\ extras_txt' = <<>>
  /\ UNCHANGED <<whl, environ, wheelVars, nameVars, args, BUILD>>

NextMain == Expand \/ OpenBuild \/ RenderBase \/ RenderExtra \/ WriteBuild \/ RunAgain

SpecMain == InitMain /\ [][NextMain]_vars

----------------------------------------------------------------------------
(* What the claims speak of *)

\* The requirement fields in the order _parse_metadata reads them.
Fields == whl.METADATA.Requires \o whl.METADATA.RequiresDist

\* Requirement i as its string declares it, before any extra is inferred.
Declared(i) == parse_requirement(Fields[i])

\* The requirements of the record metadata() returned.
Reqs == record.value.run_requires

Called(r) == r.status = "ok"

\* No other requirement of the METADATA has requirement i's project name.
Sole(i) ==
  \A j \in 1..Len(Fields) :
    j # i => Declared(j).project_name # Declared(i).project_name

\* The right-most top-level sub-expression of a marker.
Trailing(marker) == marker._markers.items[Len(marker._markers.items)]

\* A leaf of the form extra == "<literal>"
IsExtraEq(node) ==
  /\ node.type = "tuple"
  /\ node.lhs = Variable("extra")
  /\ node.op = "=="
  /\ node.rhs.type = "Value"

\* The marker is the leaf extra == "X" and nothing else.
SolelyExtraEq(marker, X) ==
  /\ marker.present
  /\ Len(marker._markers.items) = 1
  /\ IsExtraEq(Trailing(marker))
  /\ Trailing(marker).rhs.value = X

----------------------------------------------------------------------------
(* C1 *)

\* C1: a requirement with no marker and no extras is in dependencies() and in
\* dependencies(extra) for every extra.
C1_UnconditionalEverywhere ==
  \A i \in 1..Len(Fields) :
    (~Declared(i).marker.present /\ Declared(i).extras = <<>>) =>
      /\ Called(base) => Declared(i).project_name \in base.value
      /\ Called(extraDeps) => Declared(i).project_name \in extraDeps.value

\* An unconditional requirement beside an extra-gated one, resolved for no
\* extra and for that extra.
C1_Witness ==
  /\ Called(base) /\ Called(extraDeps) /\ Truthy(extraArg)
  /\ \E i, j \in 1..Len(Fields) :
       /\ ~Declared(i).marker.present /\ Declared(i).extras = <<>>
       /\ Declared(i).project_name \in base.value \cap extraDeps.value
       /\ Declared(j).project_name # Declared(i).project_name
       /\ Declared(j).project_name \in extraDeps.value \ base.value

----------------------------------------------------------------------------
(* C2 *)

\* The three skip rules as the specification words them.
WordedSkipped(r, extra) ==
  \/ extra = None /\ r.extras # <<>>
  \/ extra # None /\ (r.extras = <<>> \/ extra \notin Range(r.extras))
  \/ r.marker.present /\ ~evaluate(r.marker, extra, environ)

\* The rules with the second one amended: a requirement without extras is
\* never skipped by it, and an empty extra counts as absent.
AmendedSkipped(r, extra) ==
  \/ extra \in {None, ""} /\ r.extras # <<>>
  \/ extra \notin {None, ""} /\ r.extras # <<>> /\ extra \notin Range(r.extras)
  \/ r.marker.present /\ ~evaluate(r.marker, extra, environ)

\* C2 as claimed: dependencies(extra), for no extra and for every extra name,
\* is exactly the project names of the requirements that survive the three
\* rules as worded.
C2_AsWorded ==
  /\ Called(base) =>
       base.value = {Reqs[i].project_name :
                       i \in {j \in 1..Len(Reqs) : ~WordedSkipped(Reqs[j], None)}}
  /\ (Called(extraDeps) /\ extraArg # "") =>
       extraDeps.value = {Reqs[i].project_name :
                            i \in {j \in 1..Len(Reqs) : ~WordedSkipped(Reqs[j], extraArg)}}

\* C2 amended: dependencies(extra) is exactly the project names of the
\* requirements that survive (1) extra absent or empty and r.extras non-empty,
\* (2) extra given, r.extras non-empty and extra not in r.extras, (3) a marker
\* that evaluates to false under {extra: extra}.
C2_Amended ==
  /\ Called(base) =>
       base.value = {Reqs[i].project_name :
                       i \in {j \in 1..Len(Reqs) : ~AmendedSkipped(Reqs[j], None)}}
  /\ Called(extraDeps) =>
       extraDeps.value = {Reqs[i].project_name :
                            i \in {j \in 1..Len(Reqs) : ~AmendedSkipped(Reqs[j], extraArg)}}

\* For a named extra, one requirement is kept though it has no extras, one is
\* skipped for its extras and one for its marker.
C2_Witness ==
  /\ Called(extraDeps) /\ Truthy(extraArg)
  /\ \E i \in 1..Len(Reqs) :
       Reqs[i].extras = <<>> /\ Reqs[i].project_name \in extraDeps.value
  /\ \E j \in 1..Len(Reqs) :
       /\ Reqs[j].project_name \notin extraDeps.value
       /\ \/ Reqs[j].extras # <<>> /\ extraArg \notin Range(Reqs[j].extras)
          \/ /\ extraArg \in Range(Reqs[j].extras)
             /\ ~evaluate(Reqs[j].marker, extraArg, environ)

----------------------------------------------------------------------------
(* C3 *)

\* C3 as claimed: a requirement with explicit extras E, whatever its marker,
\* is absent from dependencies() and is in dependencies(e) iff e is in E.
C3_WhateverMarker ==
  \A i \in 1..Len(Fields) :
    (Declared(i).extras # <<>> /\ Sole(i)) =>
      /\ Called(base) => Declared(i).project_name \notin base.value
      /\ (Called(extraDeps) /\ Truthy(extraArg)) =>
           (Declared(i).project_name \in extraDeps.value
              <=> extraArg \in Range(Declared(i).extras))

\* C3 amended: a requirement with explicit extras E is absent from
\* dependencies(), and is in dependencies(e) iff e is one of its extras (E and
\* the one inferred from its marker) and its marker, if it has one, evaluates
\* to true under {extra: e}; without a marker, iff e is in E.
C3_Amended ==
  \A i \in 1..Len(Fields) :
    (Declared(i).extras # <<>> /\ Sole(i)) =>
      /\ Called(base) => Declared(i).project_name \notin base.value
      /\ (Called(extraDeps) /\ Truthy(extraArg)) =>
           /\ Declared(i).project_name \in extraDeps.value
                <=> /\ extraArg \in Range(Reqs[i].extras)
                    /\ Declared(i).marker.present =>
                         evaluate(Declared(i).marker, extraArg, environ)
           /\ ~Declared(i).marker.present =>
                (Declared(i).project_name \in extraDeps.value
                   <=> extraArg \in Range(Declared(i).extras))

\* A requirement with explicit extras and a marker, resolved for no extra and
\* for an extra that only its marker names.
C3_Witness ==
  /\ Called(base) /\ Called(extraDeps) /\ Truthy(extraArg)
  /\ \E i \in 1..Len(Fields) :
       /\ Declared(i).extras # <<>> /\ Sole(i) /\ Declared(i).marker.present
       /\ extraArg \notin Range(Declared(i).extras)
       /\ Declared(i).project_name \in extraDeps.value \ base.value

----------------------------------------------------------------------------
(* C4 *)

\* C4: a requirement without explicit extras whose marker is solely
\* extra == "X" puts X into the record's extras, is in dependencies(X) and is
\* absent from dependencies().
C4_SoleExtraMarker ==
  \A i \in 1..Len(Fields) : \A X \in ExtraArgs :
    (Truthy(X) /\ Declared(i).extras = <<>> /\ SolelyExtraEq(Declared(i).marker, X)) =>
      /\ Called(record) => X \in record.value.extras
      /\ Called(listed) => X \in listed.value
      /\ (Called(extraDeps) /\ extraArg = X) =>
           Declared(i).project_name \in extraDeps.value
      /\ (Called(base) /\ Sole(i)) => Declared(i).project_name \notin base.value

\* mock; extra == 'test' resolved for no extra and for test.
C4_Witness ==
  /\ Called(record) /\ Called(base) /\ Called(extraDeps) /\ Called(listed)
  /\ \E i \in 1..Len(Fields) :
       /\ Declared(i).extras = <<>> /\ SolelyExtraEq(Declared(i).marker, extraArg)
       /\ Truthy(extraArg) /\ Sole(i)
       /\ extraArg \in listed.value
       /\ Declared(i).project_name \in extraDeps.value \ base.value

----------------------------------------------------------------------------
(* C5 *)

\* C5 as claimed: an extra that is not in the record's extras adds nothing to
\* dependencies().
C5_UnknownExtraAddsNothing ==
  (Called(record) /\ Called(base) /\ Called(extraDeps) /\ Truthy(extraArg)
     /\ extraArg \notin record.value.extras)
    => extraDeps.value \subseteq base.value

----------------------------------------------------------------------------
(* C8 *)

\* The extras C8 gives requirement d: the literal of a trailing leaf
\* extra == "<literal>" appended unless already there, else d's own.
ClaimedExtras(d) ==
  IF /\ d.marker.present
     /\ IsExtraEq(Trailing(d.marker))
     /\ Truthy(Trailing(d.marker).rhs.value)
     /\ Trailing(d.marker).rhs.value \notin Range(d.extras)
  THEN d.extras \o <<Trailing(d.marker).rhs.value>>
  ELSE d.extras

\* C8 as claimed: an extra is attached only for a trailing top-level leaf
\* extra == "<literal>", only if not already present, so no extras hold a
\* name twice.
C8_TrailingLeafOnly ==
  Called(record) =>
    \A i \in 1..Len(Reqs) :
      /\ Reqs[i].extras = ClaimedExtras(Declared(i))
      /\ \A k, l \in 1..Len(Reqs[i].extras) :
           k # l => Reqs[i].extras[k] # Reqs[i].extras[l]

----------------------------------------------------------------------------
(* C10 *)

\* C10: the record's extras, and extras(), are exactly the union of the final
\* extras (bracketed plus inferred) of the requirements, the Requires fields
\* first and the Requires-Dist fields after them.
C10_ExtrasAreTheUnion ==
  Called(listed) =>
    /\ Called(record) /\ listed.value = record.value.extras
    /\ Len(Reqs) = Len(Fields)
    /\ \A i \in 1..Len(Fields) :
         /\ Reqs[i].project_name = Declared(i).project_name
         /\ Range(Declared(i).extras) \subseteq listed.value
         /\ (Declared(i).marker.present
               /\ Truthy(find_marker_extra(Declared(i).marker._markers)))
              => find_marker_extra(Declared(i).marker._markers) \in listed.value
    /\ \A n \in listed.value :
         \E i \in 1..Len(Fields) :
           \/ n \in Range(Declared(i).extras)
           \/ /\ Declared(i).marker.present
              /\ n = find_marker_extra(Declared(i).marker._markers)

\* six in Requires, then mock; extra == 'test' and
\* requests[security]; extra == 'security': extras() is {test, security}.
C10_Witness ==
  /\ Called(listed)
  /\ listed.value = {"test", "security"}
  /\ Len(whl.METADATA.Requires) = 1
  /\ \E i, j \in 1..Len(Fields) :
       /\ SolelyExtraEq(Declared(i).marker, "test") /\ Declared(i).extras = <<>>
       /\ Declared(j).extras = <<"security">>

----------------------------------------------------------------------------
(* C7 *)

\* b is the base filename of p: what follows p's last "/".
IsBasename(b, p) ==
  /\ Len(b) <= Len(p)
  /\ SubSeq(p, Len(p) - Len(b) + 1, Len(p)) = b
  /\ \A i \in 1..Len(b) : b[i] # "/"
  /\ Len(b) < Len(p) => p[Len(p) - Len(b)] = "/"

\* c0 and c1 are the first two '-'-delimited components of b.
FirstTwoComponents(b, c0, c1) ==
  /\ \A i \in 1..Len(c0) : c0[i] # "-"
  /\ \A i \in 1..Len(c1) : c1[i] # "-"
  /\ Len(b) >= Len(c0) + 1 + Len(c1)
  /\ SubSeq(b, 1, Len(c0) + 1 + Len(c1)) = c0 \o <<"-">> \o c1
  /\ Len(b) > Len(c0) + 1 + Len(c1) => b[Len(c0) + Len(c1) + 2] = "-"

\* v is s with every '-', '.' and '+' replaced by '_', and nothing else changed.
Escaped(v, s) ==
  /\ Len(v) = Len(s)
  /\ \A i \in 1..Len(s) :
       /\ v[i] \notin {"-", ".", "+"}
       /\ v[i] = IF s[i] \in {"-", ".", "+"} THEN "_" ELSE s[i]

\* C7: for a path whose base filename has at least two '-'-delimited
\* components, distribution() is component 0, version() is component 1 and
\* repository_name() is "pypi__" + distribution + "_" + version with every
\* '-', '.' and '+' replaced by '_'.
C7_RepositoryName ==
  \A k \in 0..Len(path) : \A m, n \in 0..Len(path) :
    LET b == SubSeq(path, Len(path) - k + 1, Len(path))
        c0 == SubSeq(b, 1, m)
        c1 == SubSeq(b, m + 2, m + 1 + n)
    IN (m + 1 + n <= k /\ IsBasename(b, path) /\ FirstTwoComponents(b, c0, c1)) =>
         /\ ret.op = "distribution" => ret.result = Returned(c0)
         /\ ret.op = "version" => ret.result = Returned(c1)
         /\ ret.op = "repository_name" =>
              /\ Called(ret.result)
              /\ Escaped(ret.result.value,
                         <<"p", "y", "p", "i", "_", "_">> \o c0 \o <<"_">> \o c1)

\* repository_name() of g-0+. (distribution g, version 0+.) is pypi__g_0__
C7_Witness ==
  /\ path = <<"g", "-", "0", "+", ".">>
  /\ ret.op = "repository_name"
  /\ ret.result = Returned(<<"p", "y", "p", "i", "_", "_", "g", "_", "0", "_", "_">>)

----------------------------------------------------------------------------
(* C6 *)

\* C6 as claimed: when a run of main() fails, no BUILD file has been created
\* or truncated.
C6_NoBuildOnFailure ==
  (run = 1 /\ pc = "raised") => BUILD = [state |-> "absent"]

----------------------------------------------------------------------------
(* C9 *)

\* C9 as claimed: two runs of main() on the same archive with the same
\* arguments write the same BUILD text.
C9_SameOrderEveryRun ==
  (run = 2 /\ pc = "done" /\ Called(first)) => BUILD = first.value

=============================================================================
